---- MODULE Spec2Model ----
(***************************************************************************)
(* Model of the wiringx pin handles: the PWM pin (src/wiringx/src/pwm.rs)  *)
(* and the digital GPIO pin (src/wiringx/src/gpio.rs).                     *)
(*                                                                         *)
(* Each thread owns at most one PwmPin and at most one digital Pin.  A     *)
(* method of PwmPin that makes several hardware calls is modelled one      *)
(* hardware call per step, so that calls of different threads interleave   *)
(* as they do on the real registry and the real hardware.                  *)
(*                                                                         *)
(* Numbers.  A Duration is a natural number of nanoseconds.  An f32 duty   *)
(* cycle is the rational n / DutyDen, held as its numerator n; NaN is a    *)
(* distinguished value.  Periods are multiples of DutyDen, so that         *)
(* period * duty cycle is a whole number of nanoseconds and the rounding   *)
(* of Duration::mul_f32 plays no part.                                     *)
(*                                                                         *)
(* Specifications.  Spec: two threads, the PWM registry and hardware, few  *)
(* values.  SpecValues: one thread and one PWM pin, every value.           *)
(* SpecLife: claims and drops of PWM and digital pins.  SpecGpio: the      *)
(* digital pins.  SpecInput: one thread reading and waiting on an input    *)
(* pin.  SpecLock: construction and drop of PWM pins with the taking and   *)
(* the release of the registry lock as steps of their own.                 *)
(*                                                                         *)
(* A count of milliseconds is a pair <<hi, lo>> standing for               *)
(* hi * 2^31 + lo, so that timeouts beyond the i32 range keep their width. *)
(***************************************************************************)
EXTENDS Integers, Sequences, FiniteSets, TLC

\* ------------------------------------------------------------- bounds
MaxPeriod == 2
DutyDen == 2
\* timeouts of wait_for_interrupt reach MaxHi * 2^31 + (2^31 - 1) milliseconds
MaxHi == 2

Threads == {"t1", "t2"}
Pins == {11, 12}
Periods == {DutyDen * k : k \in 0..MaxPeriod}
NaN == 0 - (DutyDen + DutyDen)
DutyArgs == ((0 - 1) .. (DutyDen + 1)) \cup {NaN}
Polarities == {"Normal", "Inversed"}

\* The inputs a specification draws from: the pin numbers, periods, duty
\* cycles and polarities its threads pass to the methods.
\* RegistryInputs: two threads contend for two pins with few values.
\* ValueInputs: every period, duty cycle and polarity, on one pin.
RegistryInputs ==
    [pins |-> Pins, periods |-> {DutyDen}, duties |-> {1, NaN}, polarities |-> {"Normal"}]
ValueInputs ==
    [pins |-> {11}, periods |-> Periods, duties |-> DutyArgs, polarities |-> Polarities]
\* LifeInputs: claims and drops only, of one pin number, one value of each kind.
LifeInputs ==
    [pins |-> {11}, periods |-> {DutyDen}, duties |-> {1}, polarities |-> {"Normal"}]

VARIABLES
    handles,      \* Hand<i32> of the PWM pins: the set behind the mutex
    pwm,          \* pwm[t]: the PwmPin thread t owns, or NoPwm
    hw,           \* hw[p]: what the PWM hardware of pin p is programmed to
    pc,           \* pc[t]: where thread t is inside a PwmPin method
    loc,          \* loc[t]: the arguments and locals of the method t is in
    calls,        \* calls[t]: the hardware calls of t's current method, in order
    ret,          \* ret[t]: what t's method returned
    gpio_handles, \* Hand<i32> of the digital pins
    gpio,         \* gpio[t]: the digital Pin thread t owns, or NoPin
    level,        \* level[p]: the raw level digitalRead(p) returns
    gret,         \* gret[t]: what t's last digital-pin call did and returned
    irq,          \* irq[t]: the timeout and the status of t's last wait_for_interrupt
    lock          \* the thread inside handles.lock() of the PWM registry, or "free"

pwmVars == <<handles, pwm, hw, pc, loc, calls, ret, lock>>
gpioVars == <<gpio_handles, gpio, level, gret, irq>>
vars == <<handles, pwm, hw, pc, loc, calls, ret, lock, gpio_handles, gpio, level, gret, irq>>

\* ------------------------------------------------------------- values
NoPwm == [number |-> 0, period |-> 0, duty_cycle |-> 0, polarity |-> "Normal", live |-> FALSE]

PwmPin(number, period, duty_cycle, polarity) ==
    [number |-> number, period |-> period, duty_cycle |-> duty_cycle,
     polarity |-> polarity, live |-> TRUE]

NoLoc == [number |-> 0, period |-> 0, duty_cycle |-> 0, arg |-> 0, polarity |-> "Normal",
          pre |-> NoPwm]

NoRet == [op |-> "none", res |-> "none", val |-> 0]

HwReset == [period |-> 0, duty |-> 0, polarity |-> 0, enabled |-> 0]

\* wiringx_sys::digital_value_t
digital_value_t_LOW == 0
digital_value_t_HIGH == 1

\* what digitalRead can return: an error, the two levels, another nonzero value
RawLevels == {0 - 1, digital_value_t_LOW, digital_value_t_HIGH, digital_value_t_HIGH + 1}

\* struct Pin<T>; mode is "Output" or "Input", value is Output.value
NoPin == [number |-> 0, mode |-> "none", value |-> "Low", live |-> FALSE]

NoGret == [op |-> "none", number |-> 0, res |-> "none", was |-> <<>>]

\* no wait_for_interrupt yet: the timeout asked for, the i32 handed to
\* waitForInterrupt, and the status it returned
NoIrq == [asked |-> <<0, 0>>, passed |-> 0, status |-> 0]

\* enum Polarity, #[repr(i32)]
PolarityCode(polarity) == IF polarity = "Normal" THEN 0 ELSE 1

\* f32::clamp(0.0, 1.0): NaN stays NaN
clamp_min_only(x) ==
    IF x = NaN THEN NaN
    ELSE IF x < 0 THEN 0
    ELSE x

clamp(x) ==
    IF x = NaN THEN NaN
    ELSE IF x < 0 THEN 0
    ELSE IF x > DutyDen THEN DutyDen
    ELSE x

\* Duration::mul_f32 panics on a NaN (or negative) factor
mul_f32_panics(duty_cycle) == duty_cycle = NaN \/ duty_cycle < 0

\* Duration::mul_f32(period, duty_cycle) followed by as_nanos() as i64
mul_f32(period, duty_cycle) == (period * duty_cycle) \div DutyDen

\* ------------------------------------------------------------- hardware
\* One call of the hardware interface on pin p.  ok is the hardware's
\* verdict (result >= 0); a rejected call leaves the hardware as it was.
HwApply(p, f, arg, ok) ==
    IF ~ok THEN hw
    ELSE CASE f = "SetPeriod"   -> [hw EXCEPT ![p].period = arg]
           [] f = "SetDuty"     -> [hw EXCEPT ![p].duty = arg]
           [] f = "SetPolarity" -> [hw EXCEPT ![p].polarity = arg]
           [] f = "Enable"      -> [hw EXCEPT ![p].enabled = arg]

Call(f, p, arg, ok) == [f |-> f, pin |-> p, arg |-> arg, ok |-> ok]

\* thread t issues the hardware call f(p, arg) with verdict ok
HwCall(t, f, p, arg, ok) ==
    /\ hw' = HwApply(p, f, arg, ok)
    /\ calls' = [calls EXCEPT ![t] = Append(@, Call(f, p, arg, ok))]

\* thread t's method returns
Returns(t, op, res, val) ==
    /\ pc' = [pc EXCEPT ![t] = "done"]
    /\ ret' = [ret EXCEPT ![t] = [op |-> op, res |-> res, val |-> val]]

Goto(t, label) ==
    /\ pc' = [pc EXCEPT ![t] = label]
    /\ UNCHANGED ret

\* ------------------------------------------------------------- Init
Init ==
    /\ handles = {}
    /\ pwm = [t \in Threads |-> NoPwm]
    /\ hw = [p \in Pins |-> HwReset]
    /\ pc = [t \in Threads |-> "idle"]
    /\ loc = [t \in Threads |-> NoLoc]
    /\ calls = [t \in Threads |-> <<>>]
    /\ ret = [t \in Threads |-> NoRet]
    /\ gpio_handles = {}
    /\ gpio = [t \in Threads |-> NoPin]
    /\ level = [p \in Pins |-> digital_value_t_LOW]
    /\ gret = [t \in Threads |-> NoGret]
    /\ irq = [t \in Threads |-> NoIrq]
    /\ lock = "free"

\* ------------------------------------------------------------- PwmPin::new
\* handles.lock().contains(&number)
ClaimedNever(number) == FALSE

Claimed(number) == number \in handles

\* lines 55-64: the call and the registry check
NewCheck(t, in) ==
    \E number \in in.pins, period \in in.periods :
        /\ pc[t] = "idle"
        /\ ~pwm[t].live
        /\ loc' = [loc EXCEPT ![t] = [NoLoc EXCEPT !.number = number, !.period = period]]
        /\ IF Claimed(number)
           THEN Returns(t, "new", "PinUsed", 0)
           ELSE Goto(t, "new_period")
        /\ UNCHANGED <<handles, pwm, hw, calls, lock, gpioVars>>

\* lines 66-68: wiringXPWMSetPeriod
NewSetPeriod(t) ==
    \E ok \in BOOLEAN :
        /\ pc[t] = "new_period"
        /\ HwCall(t, "SetPeriod", loc[t].number, loc[t].period, ok)
        /\ Goto(t, IF ok THEN "new_duty" ELSE "new_fallback")
        /\ UNCHANGED <<handles, pwm, loc, lock, gpioVars>>

\* lines 69-72: wiringXPWMSetDuty(number, 0)
NewFallbackDuty(t) ==
    \E ok \in BOOLEAN :
        /\ pc[t] = "new_fallback"
        /\ HwCall(t, "SetDuty", loc[t].number, 0, ok)
        /\ IF ok THEN Goto(t, "new_retry") ELSE Returns(t, "new", "Unsupported", 0)
        /\ UNCHANGED <<handles, pwm, loc, lock, gpioVars>>

NewRetryPeriodUnsupported(t) ==
    \E ok \in BOOLEAN :
        /\ pc[t] = "new_retry"
        /\ HwCall(t, "SetPeriod", loc[t].number, loc[t].period, ok)
        /\ IF ok THEN Goto(t, "new_duty") ELSE Returns(t, "new", "Unsupported", 0)
        /\ UNCHANGED <<handles, pwm, loc, lock, gpioVars>>

\* lines 74-77: wiringXPWMSetPeriod again
NewRetryPeriod(t) ==
    \E ok \in BOOLEAN :
        /\ pc[t] = "new_retry"
        /\ HwCall(t, "SetPeriod", loc[t].number, loc[t].period, ok)
        /\ IF ok THEN Goto(t, "new_duty") ELSE Returns(t, "new", "InvalidArgument", 0)
        /\ UNCHANGED <<handles, pwm, loc, lock, gpioVars>>

\* lines 80-87: clamp, wiringXPWMSetDuty.  The duty_cycle argument is first
\* read here, so it is drawn here.
NewSetDuty(t, in) ==
    \E x \in in.duties, ok \in BOOLEAN :
        /\ pc[t] = "new_duty"
        /\ loc' = [loc EXCEPT ![t].arg = x, ![t].duty_cycle = clamp(x)]
        /\ IF mul_f32_panics(clamp(x))
           THEN /\ Returns(t, "new", "panic", 0)
                /\ UNCHANGED <<hw, calls>>
           ELSE /\ HwCall(t, "SetDuty", loc[t].number, mul_f32(loc[t].period, clamp(x)), ok)
                /\ IF ok THEN Goto(t, "new_polarity")
                         ELSE Returns(t, "new", "InvalidArgument", 0)
        /\ UNCHANGED <<handles, pwm, lock, gpioVars>>

\* lines 89-93: wiringXPWMSetPolarity.  The polarity argument is first read here.
NewSetPolarity(t, in) ==
    \E polarity \in in.polarities, ok \in BOOLEAN :
        /\ pc[t] = "new_polarity"
        /\ loc' = [loc EXCEPT ![t].polarity = polarity]
        /\ HwCall(t, "SetPolarity", loc[t].number, PolarityCode(polarity), ok)
        /\ IF ok THEN Goto(t, "new_enable") ELSE Returns(t, "new", "InvalidArgument", 0)
        /\ UNCHANGED <<handles, pwm, lock, gpioVars>>

NewEnableUnchecked(t) ==
    \E ok \in BOOLEAN :
        /\ pc[t] = "new_enable"
        /\ HwCall(t, "Enable", loc[t].number, 1, ok)
        /\ Goto(t, "new_insert")
        /\ UNCHANGED <<handles, pwm, loc, lock, gpioVars>>

\* lines 95-99: wiringXPWMEnable(number, 1)
NewEnable(t) ==
    \E ok \in BOOLEAN :
        /\ pc[t] = "new_enable"
        /\ HwCall(t, "Enable", loc[t].number, 1, ok)
        /\ IF ok THEN Goto(t, "new_insert") ELSE Returns(t, "new", "InvalidArgument", 0)
        /\ UNCHANGED <<handles, pwm, loc, lock, gpioVars>>

\* lines 101-109: handles.lock().insert(number); Ok(Self { .. })
NewInsert(t) ==
    /\ pc[t] = "new_insert"
    /\ handles' = handles \cup {loc[t].number}
    /\ pwm' = [pwm EXCEPT ![t] =
                  PwmPin(loc[t].number, loc[t].period, loc[t].duty_cycle, loc[t].polarity)]
    /\ Returns(t, "new", "Ok", 0)
    /\ UNCHANGED <<hw, loc, calls, lock, gpioVars>>

\* ------------------------------------------------------------- mutators
\* a method of the PwmPin t owns can start
CanCall(t) == pc[t] = "idle" /\ pwm[t].live

\* the locals of a method of t's handle: its pin number and the handle as
\* the method found it
Enter(t) == [NoLoc EXCEPT !.number = pwm[t].number, !.pre = pwm[t]]

\* what a mutator leaves in a cached field: the early return on result < 0
\* comes before the assignment (lines 129-133, 160-164, 183-187)
StoreAlways(ok, new, old) == new

StoreIf(ok, new, old) == IF ok THEN new ELSE old

SetPeriodDutyOfCachedPeriod(t, in) ==
    \E period \in in.periods, ok \in BOOLEAN :
        /\ CanCall(t)
        /\ loc' = [loc EXCEPT ![t] = [Enter(t) EXCEPT !.period = period]]
        /\ IF mul_f32_panics(pwm[t].duty_cycle)
           THEN /\ Returns(t, "set_period", "panic", 0)
                /\ UNCHANGED <<hw, calls>>
           ELSE /\ HwCall(t, "SetDuty", pwm[t].number, mul_f32(pwm[t].period, pwm[t].duty_cycle), ok)
                /\ IF ok THEN Goto(t, "sp_period")
                         ELSE Returns(t, "set_period", "InvalidArgument", 0)
        /\ UNCHANGED <<handles, pwm, lock, gpioVars>>

\* set_period, lines 113-124: wiringXPWMSetDuty with the new period
SetPeriodDuty(t, in) ==
    \E period \in in.periods, ok \in BOOLEAN :
        /\ CanCall(t)
        /\ loc' = [loc EXCEPT ![t] = [Enter(t) EXCEPT !.period = period]]
        /\ IF mul_f32_panics(pwm[t].duty_cycle)
           THEN /\ Returns(t, "set_period", "panic", 0)
                /\ UNCHANGED <<hw, calls>>
           ELSE /\ HwCall(t, "SetDuty", pwm[t].number, mul_f32(period, pwm[t].duty_cycle), ok)
                /\ IF ok THEN Goto(t, "sp_period")
                         ELSE Returns(t, "set_period", "InvalidArgument", 0)
        /\ UNCHANGED <<handles, pwm, lock, gpioVars>>

\* set_period, lines 126-135: wiringXPWMSetPeriod, then self.period = period
SetPeriodPeriod(t) ==
    \E ok \in BOOLEAN :
        /\ pc[t] = "sp_period"
        /\ HwCall(t, "SetPeriod", pwm[t].number, loc[t].period, ok)
        /\ pwm' = [pwm EXCEPT ![t].period = StoreIf(ok, loc[t].period, @)]
        /\ Returns(t, "set_period", IF ok THEN "Ok" ELSE "InvalidArgument", 0)
        /\ UNCHANGED <<handles, loc, lock, gpioVars>>

\* set_duty_cycle, lines 150-167
SetDutyCycle(t, in) ==
    \E x \in in.duties, ok \in BOOLEAN :
        /\ CanCall(t)
        /\ loc' = [loc EXCEPT ![t] = [Enter(t) EXCEPT !.arg = x, !.duty_cycle = clamp(x)]]
        /\ IF mul_f32_panics(clamp(x))
           THEN /\ Returns(t, "set_duty_cycle", "panic", 0)
                /\ UNCHANGED <<hw, calls, pwm>>
           ELSE /\ HwCall(t, "SetDuty", pwm[t].number, mul_f32(pwm[t].period, clamp(x)), ok)
                /\ pwm' = [pwm EXCEPT ![t].duty_cycle = StoreIf(ok, clamp(x), @)]
                /\ Returns(t, "set_duty_cycle", IF ok THEN "Ok" ELSE "InvalidArgument", 0)
        /\ UNCHANGED <<handles, lock, gpioVars>>

\* set_polarity, lines 180-190
SetPolarity(t, in) ==
    \E polarity \in in.polarities, ok \in BOOLEAN :
        /\ CanCall(t)
        /\ loc' = [loc EXCEPT ![t] = [Enter(t) EXCEPT !.polarity = polarity]]
        /\ HwCall(t, "SetPolarity", pwm[t].number, PolarityCode(polarity), ok)
        /\ pwm' = [pwm EXCEPT ![t].polarity = StoreIf(ok, polarity, @)]
        /\ Returns(t, "set_polarity", IF ok THEN "Ok" ELSE "InvalidArgument", 0)
        /\ UNCHANGED <<handles, lock, gpioVars>>

\* ------------------------------------------------------------- accessors
\* period(), lines 139-141
period(self) == self.period

\* duty_cycle(), lines 170-172
duty_cycle(self) == self.duty_cycle

\* duty_cycle_as_dur(), lines 175-177
duty_cycle_as_dur_hw(self) == hw[self.number].duty

duty_cycle_as_dur(self) == mul_f32(self.period, self.duty_cycle)

\* polarity(), lines 193-195
polarity(self) == PolarityCode(self.polarity)

\* the value the accessor named op returns on the handle self
Read(op, self) ==
    CASE op = "period" -> period(self)
      [] op = "duty_cycle" -> duty_cycle(self)
      [] op = "duty_cycle_as_dur" -> duty_cycle_as_dur(self)
      [] op = "polarity" -> polarity(self)

Accessors == {"period", "duty_cycle", "duty_cycle_as_dur", "polarity"}

\* a call of one of the accessors
Accessor(t) ==
    \E op \in Accessors :
        /\ CanCall(t)
        /\ loc' = [loc EXCEPT ![t] = Enter(t)]
        /\ Returns(t, op, "Ok", Read(op, pwm[t]))
        /\ UNCHANGED <<handles, pwm, hw, calls, lock, gpioVars>>

\* ------------------------------------------------------------- Drop for PwmPin
\* line 200: self.handles.lock().remove(&self.number)
DropRemoveKeeps(t) ==
    /\ CanCall(t)
    /\ loc' = [loc EXCEPT ![t] = Enter(t)]
    /\ pwm' = [pwm EXCEPT ![t] = NoPwm]
    /\ Goto(t, "drop_disable")
    /\ UNCHANGED <<handles, hw, calls, lock, gpioVars>>

DropRemove(t) ==
    /\ CanCall(t)
    /\ loc' = [loc EXCEPT ![t] = Enter(t)]
    /\ handles' = handles \ {pwm[t].number}
    /\ pwm' = [pwm EXCEPT ![t] = NoPwm]
    /\ Goto(t, "drop_disable")
    /\ UNCHANGED <<hw, calls, lock, gpioVars>>

DropDisableRetries(t) ==
    \E ok \in BOOLEAN :
        /\ pc[t] = "drop_disable"
        /\ HwCall(t, "Enable", loc[t].number, 0, ok)
        /\ IF ok THEN Returns(t, "drop", "unit", 0) ELSE Goto(t, "drop_disable")
        /\ UNCHANGED <<handles, pwm, loc, lock, gpioVars>>

\* line 201: wiringXPWMEnable(self.number, 0), the result unused
DropDisable(t) ==
    \E ok \in BOOLEAN :
        /\ pc[t] = "drop_disable"
        /\ HwCall(t, "Enable", loc[t].number, 0, ok)
        /\ Returns(t, "drop", "unit", 0)
        /\ UNCHANGED <<handles, pwm, loc, lock, gpioVars>>

\* ------------------------------------------------------------- the registry lock
\* The three statements that touch the registry, each split at handles.lock():
\* the first step takes the mutex (parking_lot's lock() waits until it is
\* free), the second does the one operation on the set and drops the guard.
\* The guard is a temporary: it is dropped at the end of the condition of
\* the `if` of line 62 and at the end of the statements of lines 101 and 200.
GuardKept(t) == t

GuardDropped(t) == "free"

\* line 62: handles.lock() of the membership check
NewLock(t, in) ==
    \E number \in in.pins, dur \in in.periods :
        /\ pc[t] = "idle"
        /\ ~pwm[t].live
        /\ lock = "free"
        /\ lock' = t
        /\ loc' = [loc EXCEPT ![t] = [NoLoc EXCEPT !.number = number, !.period = dur]]
        /\ Goto(t, "new_locked")
        /\ UNCHANGED <<handles, pwm, hw, calls, gpioVars>>

\* lines 62-64: .contains(&number), the guard dropped, the branch
NewContains(t) ==
    /\ pc[t] = "new_locked"
    /\ lock' = GuardDropped(t)
    /\ IF Claimed(loc[t].number)
       THEN Returns(t, "new", "PinUsed", 0)
       ELSE Goto(t, "new_period")
    /\ UNCHANGED <<handles, pwm, hw, loc, calls, gpioVars>>

\* line 101: handles.lock() of the insert
InsertLock(t) ==
    /\ pc[t] = "new_insert"
    /\ lock = "free"
    /\ lock' = t
    /\ Goto(t, "insert_locked")
    /\ UNCHANGED <<handles, pwm, hw, loc, calls, gpioVars>>

\* lines 101-109: .insert(number), the guard dropped, Ok(Self { .. })
InsertLocked(t) ==
    /\ pc[t] = "insert_locked"
    /\ lock' = "free"
    /\ handles' = handles \cup {loc[t].number}
    /\ pwm' = [pwm EXCEPT ![t] =
                  PwmPin(loc[t].number, loc[t].period, loc[t].duty_cycle, loc[t].polarity)]
    /\ Returns(t, "new", "Ok", 0)
    /\ UNCHANGED <<hw, loc, calls, gpioVars>>

\* line 200: self.handles.lock() of the drop
DropLock(t) ==
    /\ CanCall(t)
    /\ lock = "free"
    /\ lock' = t
    /\ loc' = [loc EXCEPT ![t] = Enter(t)]
    /\ Goto(t, "drop_locked")
    /\ UNCHANGED <<handles, pwm, hw, calls, gpioVars>>

\* line 200: .remove(&self.number), the guard dropped
DropLocked(t) ==
    /\ pc[t] = "drop_locked"
    /\ lock' = "free"
    /\ handles' = handles \ {loc[t].number}
    /\ pwm' = [pwm EXCEPT ![t] = NoPwm]
    /\ Goto(t, "drop_disable")
    /\ UNCHANGED <<hw, loc, calls, gpioVars>>

\* ------------------------------------------------------------- digital Pin
\* Value::opposite, gpio.rs lines 143-148
opposite_same(value) == value

opposite(value) == IF value = "Low" THEN "High" ELSE "Low"

FromRawNonzero(result) == IF result # 0 THEN "High" ELSE "Low"

\* the mapping of digitalRead's result in read(), lines 65-69 and 78-82
FromRaw(result) == IF result = 1 THEN "High" ELSE "Low"

\* the match of write(), lines 46-49
ToRaw(value) == IF value = "High" THEN digital_value_t_HIGH ELSE digital_value_t_LOW

\* Pin<Output>::read and Pin<Input>::read: digitalRead(self.number)
read(self) == FromRaw(level[self.number])

\* Pin::new, lines 26-32, with T::default()
PinNew(number, mode) == [number |-> number, mode |-> mode, value |-> "Low", live |-> TRUE]

\* WiringX::gpio_pin, the factory of the digital handles.  Its source is not
\* among the files modelled here; it is taken from the design: claim(pin)
\* inserts under the lock and reports "pin already in use" on a conflict,
\* and no hardware call configures a digital pin.
GpioClaim(t, in) ==
    \E number \in in.pins, mode \in {"Output", "Input"} :
        /\ ~gpio[t].live
        /\ IF number \in gpio_handles
           THEN /\ gret' = [gret EXCEPT ![t] = [op |-> "gpio_pin", number |-> number, res |-> "PinUsed", was |-> <<>>]]
                /\ UNCHANGED <<gpio_handles, gpio>>
           ELSE /\ gpio_handles' = gpio_handles \cup {number}
                /\ gpio' = [gpio EXCEPT ![t] = PinNew(number, mode)]
                /\ gret' = [gret EXCEPT ![t] = [op |-> "gpio_pin", number |-> number, res |-> "Ok", was |-> <<>>]]
        /\ UNCHANGED <<level, irq, pwmVars>>

\* the effect of write(value) on the handle and on the hardware, lines 43-52
WriteTo(t, value) ==
    /\ gpio' = [gpio EXCEPT ![t].value = value]
    /\ level' = [level EXCEPT ![gpio[t].number] = ToRaw(value)]

\* Pin<Output>::write
Write(t) ==
    \E value \in {"Low", "High"} :
        /\ gpio[t].live /\ gpio[t].mode = "Output"
        /\ WriteTo(t, value)
        /\ gret' = [gret EXCEPT ![t] = [op |-> "write", number |-> gpio[t].number, res |-> value, was |-> <<>>]]
        /\ UNCHANGED <<gpio_handles, irq, pwmVars>>

\* the last two entries of a sequence
LastTwo(s) == IF Len(s) > 2 THEN SubSeq(s, Len(s) - 1, Len(s)) ELSE s

\* Pin<Output>::toggle, lines 55-57: self.write(self.read().opposite()).
\* gret.was keeps what read() returned before each toggle of a run of toggles.
Toggle(t) ==
    /\ gpio[t].live /\ gpio[t].mode = "Output"
    /\ WriteTo(t, opposite(read(gpio[t])))
    /\ gret' = [gret EXCEPT ![t] =
                   [op |-> "toggle", number |-> gpio[t].number, res |-> opposite(read(gpio[t])),
                    was |-> LastTwo(Append(IF @.op = "toggle" THEN @.was ELSE <<>>,
                                           read(gpio[t])))]]
    /\ UNCHANGED <<gpio_handles, irq, pwmVars>>

\* Pin<Output>::read, lines 61-70, and Pin<Input>::read, lines 75-83
ReadPin(t) ==
    /\ gpio[t].live
    /\ gret' = [gret EXCEPT ![t] = [op |-> "read", number |-> gpio[t].number, res |-> read(gpio[t]), was |-> <<>>]]
    /\ UNCHANGED <<gpio_handles, gpio, level, irq, pwmVars>>

\* i32::MAX, the largest value of the `as i32` cast of line 104
I32Max == 2147483647

\* Duration::as_millis() is a u128.  A count of milliseconds is kept as <<hi, lo>>
\* and stands for hi * 2^31 + lo with 0 <= lo < 2^31, so that the counts
\* beyond the i32 range are there at their true width.
Millis == {<<hi, lo>> : hi \in 0..MaxHi, lo \in {0, 1, I32Max}}

\* `as i32` of a u128, line 104: the low 32 bits, read in two's complement.
\* Bit 31 is the parity of hi; the bits above it are cut off.
as_i32(ms) == IF ms[1] % 2 = 0 THEN ms[2] ELSE (ms[2] - I32Max) - 1

\* the statuses waitForInterrupt returns: a failure, a timeout, an interrupt
Statuses == {0 - 1, 0, 1, 2}

wait_result_nonnegative(result) == IF result < 0 THEN "InterruptTimeOut" ELSE "Ok"

\* lines 106-110: if result < 1 { Err(InterruptTimeOut) } else { Ok(()) }
wait_result(result) == IF result < 1 THEN "InterruptTimeOut" ELSE "Ok"

\* Pin<Input>::wait_for_interrupt, lines 103-111
WaitForInterrupt(t) ==
    \E timeout_dur \in Millis, result \in Statuses :
        /\ gpio[t].live /\ gpio[t].mode = "Input"
        /\ irq' = [irq EXCEPT ![t] = [asked |-> timeout_dur, passed |-> as_i32(timeout_dur),
                                      status |-> result]]
        /\ gret' = [gret EXCEPT ![t] = [op |-> "wait_for_interrupt", number |-> gpio[t].number,
                                        res |-> wait_result(result), was |-> <<>>]]
        /\ UNCHANGED <<gpio_handles, gpio, level, pwmVars>>

\* Drop for Pin<T>, lines 114-118
GpioDrop(t) ==
    /\ gpio[t].live
    /\ gpio_handles' = gpio_handles \ {gpio[t].number}
    /\ gpio' = [gpio EXCEPT ![t] = NoPin]
    /\ gret' = [gret EXCEPT ![t] = [op |-> "drop", number |-> gpio[t].number, res |-> "unit", was |-> <<>>]]
    /\ UNCHANGED <<level, irq, pwmVars>>

\* a pin that no Output handle drives: the outside world sets its level
OutputPins == {gpio[t].number : t \in {u \in Threads : gpio[u].live /\ gpio[u].mode = "Output"}}

Drive(in) ==
    \E p \in in.pins \ OutputPins, raw \in RawLevels :
        /\ level' = [level EXCEPT ![p] = raw]
        /\ UNCHANGED <<gpio_handles, gpio, gret, irq, pwmVars>>

\* the caller takes the result; the thread is free for its next call
Return(t) ==
    /\ pc[t] = "done"
    /\ pc' = [pc EXCEPT ![t] = "idle"]
    /\ loc' = [loc EXCEPT ![t] = NoLoc]
    /\ calls' = [calls EXCEPT ![t] = <<>>]
    /\ ret' = [ret EXCEPT ![t] = NoRet]
    /\ UNCHANGED <<handles, pwm, hw, lock, gpioVars>>

\* one step of a PwmPin method by one of the threads T, inputs drawn from in
Step(T, in) ==
    \E t \in T :
        \/ NewCheck(t, in)
        \/ NewSetPeriod(t)
        \/ NewFallbackDuty(t)
        \/ NewRetryPeriod(t)
        \/ NewSetDuty(t, in)
        \/ NewSetPolarity(t, in)
        \/ NewEnable(t)
        \/ NewInsert(t)
        \/ SetPeriodDuty(t, in)
        \/ SetPeriodPeriod(t)
        \/ SetDutyCycle(t, in)
        \/ SetPolarity(t, in)
        \/ Accessor(t)
        \/ DropRemove(t)
        \/ DropDisable(t)
        \/ Return(t)

\* one step on a digital pin
GpioStep(T, in) ==
    \/ \E t \in T :
        \/ GpioClaim(t, in)
        \/ Write(t)
        \/ Toggle(t)
        \/ ReadPin(t)
        \/ GpioDrop(t)
    \/ Drive(in)

\* one step on a digital pin by the holder of a handle that reads or waits
InputStep(T, in) ==
    \/ \E t \in T :
        \/ GpioClaim(t, in)
        \/ ReadPin(t)
        \/ WaitForInterrupt(t)
        \/ GpioDrop(t)
    \/ Drive(in)

\* two threads, the PWM registry and the PWM hardware
Next == Step(Threads, RegistryInputs)

Spec == Init /\ [][Next]_vars

\* one thread, one PWM pin, every value
NextValues == Step({"t1"}, ValueInputs)

\* two threads, the digital pins
NextGpio == GpioStep(Threads, RegistryInputs)

SpecGpio == Init /\ [][NextGpio]_vars

\* construction and drop of PWM handles with the lock steps made visible
LockStep(T, in) ==
    \E t \in T :
        \/ NewLock(t, in)
        \/ NewContains(t)
        \/ NewSetPeriod(t)
        \/ NewFallbackDuty(t)
        \/ NewRetryPeriod(t)
        \/ NewSetDuty(t, in)
        \/ NewSetPolarity(t, in)
        \/ NewEnable(t)
        \/ InsertLock(t)
        \/ InsertLocked(t)
        \/ DropLock(t)
        \/ DropLocked(t)
        \/ DropDisable(t)
        \/ Return(t)

NextLock == LockStep(Threads, RegistryInputs)
SpecLock == Init /\ [][NextLock]_vars

\* one thread reading and waiting on one pin, every timeout and every status
NextInput == InputStep({"t1"}, LifeInputs)
SpecInput == Init /\ [][NextInput]_vars

\* two threads claim and drop PWM pins and digital pins
NextLife ==
    \E t \in Threads :
        \/ NewCheck(t, LifeInputs)
        \/ NewSetPeriod(t)
        \/ NewFallbackDuty(t)
        \/ NewRetryPeriod(t)
        \/ NewSetDuty(t, LifeInputs)
        \/ NewSetPolarity(t, LifeInputs)
        \/ NewEnable(t)
        \/ NewInsert(t)
        \/ DropRemove(t)
        \/ DropDisable(t)
        \/ Return(t)
        \/ GpioClaim(t, LifeInputs)
        \/ GpioDrop(t)

SpecLife == Init /\ [][NextLife]_vars

SpecValues == Init /\ [][NextValues]_vars

\* ------------------------------------------------------------- properties
\* the live PwmPin handles that own pin p
Owners(p) == {t \in Threads : pwm[t].live /\ pwm[t].number = p}

\* thread t takes the first step of PwmPin::new in this step
NewCheckStep(t) == pc[t] = "idle" /\ ~pwm[t].live /\ pc'[t] \in {"done", "new_period"}

\* C1: no two live PwmPin handles exist for the same pin number, under any
\* interleaving of PwmPin::new calls and drops.
C1_OneHandlePerPin == \A p \in Pins : Cardinality(Owners(p)) <= 1

\* C2: PwmPin::new for a pin number that is in the registry returns PinUsed,
\* issues no hardware call and leaves the registry, the hardware and every
\* handle as they were.
C2_PinUsedNoHardware ==
    [][\A t \in Threads :
          (NewCheckStep(t) /\ loc'[t].number \in handles)
              => /\ pc'[t] = "done"
                 /\ ret'[t].op = "new" /\ ret'[t].res = "PinUsed"
                 /\ calls'[t] = <<>>
                 /\ hw' = hw
                 /\ handles' = handles
                 /\ pwm' = pwm]_vars

\* C2 witness: a claim was rejected with PinUsed while another thread's
\* handle owns the pin and the pin is still registered.
C2_Witness ==
    \E t \in Threads, u \in Threads :
        /\ t # u
        /\ pc[t] = "done" /\ ret[t].op = "new" /\ ret[t].res = "PinUsed"
        /\ pwm[u].live /\ pwm[u].number = loc[t].number
        /\ loc[t].number \in handles
        /\ calls[t] = <<>>

\* C3: a pin number is in the registry if and only if some live handle owns it.
C3_RegistryIffLive ==
    /\ \A p \in Pins : p \in handles <=> Owners(p) # {}
    /\ \A p \in Pins : p \in gpio_handles <=> \E t \in Threads : gpio[t].live /\ gpio[t].number = p

\* thread t takes the first step of the drop of its PwmPin in this step
PwmDropStep(t) == pc[t] = "idle" /\ pc'[t] = "drop_disable"

\* thread t drops its digital Pin in this step
GpioDropStep(t) == gpio[t].live /\ ~gpio'[t].live

\* thread t asks for a digital pin in this step
GpioClaimStep(t) == ~gpio[t].live /\ gret'[t] # gret[t] /\ gret'[t].op = "gpio_pin"

\* PwmPin::new of thread t returns in this step
NewReturnStep(t) == pc[t] # "done" /\ pc'[t] = "done" /\ ret'[t].op = "new"

\* every hardware call in the sequence cs succeeded
AllOk(cs) == \A i \in 1..Len(cs) : cs[i].ok

\* C4: the drop of a handle (PwmPin or digital Pin) takes its pin number out
\* of the registry; a claim on a pin number that is not in the registry is
\* not rejected with PinUsed, and PwmPin::new then returns Ok with the pin
\* registered whenever all its hardware calls succeed.
C4_ReleaseCorrect ==
    [][\A t \in Threads :
          /\ PwmDropStep(t) => pwm[t].number \notin handles'
          /\ GpioDropStep(t) => gpio[t].number \notin gpio_handles'
          /\ (NewCheckStep(t) /\ loc'[t].number \notin handles) => pc'[t] = "new_period"
          /\ (GpioClaimStep(t) /\ gret'[t].number \notin gpio_handles)
                => gret'[t].res = "Ok" /\ gpio'[t].live /\ gpio'[t].number = gret'[t].number
          /\ (NewReturnStep(t) /\ AllOk(calls'[t]) /\ ret'[t].res \notin {"PinUsed", "panic"})
                => /\ ret'[t].res = "Ok"
                   /\ pwm'[t].live /\ pwm'[t].number = loc'[t].number
                   /\ loc'[t].number \in handles']_vars

\* C4 witness: t dropped its PwmPin for a pin and u's later insert made the
\* pin u's; and likewise a digital pin dropped by one thread is now owned by
\* the other.
C4_Witness ==
    \E t \in Threads, u \in Threads :
        /\ t # u
        /\ pc[t] = "done" /\ ret[t].op = "drop"
        /\ pc[u] = "done" /\ ret[u].op = "new" /\ ret[u].res = "Ok"
        /\ loc[u].number = loc[t].number
        /\ pwm[u].live /\ loc[u].number \in handles
        /\ gret[t].op = "drop"
        /\ gret[u].op = "gpio_pin" /\ gret[u].res = "Ok" /\ gret[u].number = gret[t].number
        /\ gpio[u].live /\ gret[u].number \in gpio_handles

\* the mutators of PwmPin
Mutators == {"set_period", "set_duty_cycle", "set_polarity"}

\* some hardware call in the sequence cs failed
SomeFailed(cs) == \E i \in 1..Len(cs) : ~cs[i].ok

\* C5: when PwmPin::new returns an error because a hardware call failed, the
\* pin number is not in the registry.
C5_RollbackFreesPin ==
    \A t \in Threads :
        (pc[t] = "done" /\ ret[t].op = "new" /\ ret[t].res \in {"Unsupported", "InvalidArgument"})
            => loc[t].number \notin handles

\* C6: a mutator one of whose hardware calls failed returns InvalidArgument,
\* and period(), duty_cycle(), duty_cycle_as_dur() and polarity() return
\* afterwards what they returned before the call.
C6_FailedMutatorKeepsCache ==
    \A t \in Threads :
        (pc[t] = "done" /\ ret[t].op \in Mutators /\ SomeFailed(calls[t]))
            => /\ ret[t].res = "InvalidArgument"
               /\ pwm[t].live
               /\ \A op \in Accessors : Read(op, pwm[t]) = Read(op, loc[t].pre)
               /\ pwm[t] = loc[t].pre

\* C6 witness: set_period failed at its second hardware call, for a period
\* other than the cached one, and the cache holds the old period.
C6_Witness ==
    \E t \in Threads :
        /\ pc[t] = "done" /\ ret[t].op = "set_period" /\ ret[t].res = "InvalidArgument"
        /\ Len(calls[t]) = 2 /\ calls[t][1].ok /\ ~calls[t][2].ok
        /\ loc[t].period # loc[t].pre.period
        /\ period(pwm[t]) = loc[t].pre.period

\* C7: for a live PwmPin outside a method call, the hardware is programmed
\* with the cached period, with cached period x cached duty cycle as the duty
\* duration, and with the cached polarity.
C7_CacheIsHardware ==
    \A t \in Threads :
        (pwm[t].live /\ pc[t] \in {"idle", "done"})
            => /\ hw[pwm[t].number].period = pwm[t].period
               /\ hw[pwm[t].number].duty * DutyDen = pwm[t].period * pwm[t].duty_cycle
               /\ hw[pwm[t].number].polarity = PolarityCode(pwm[t].polarity)

\* what the claim expects set_duty_cycle(x) to store
Expected(x) == IF x < 0 THEN 0 ELSE IF x > DutyDen THEN DutyDen ELSE x

\* C8: set_duty_cycle(x) issues the hardware duty call of set_duty_cycle(0)
\* for x < 0, of set_duty_cycle(1) for x > 1 and of x itself otherwise, and
\* stores that value when the call succeeds; the cached duty cycle of a live
\* handle is always within [0, 1].
C8_DutyClamped ==
    \A t \in Threads :
        /\ pwm[t].live => (0 <= pwm[t].duty_cycle /\ pwm[t].duty_cycle <= DutyDen)
        /\ (pc[t] = "done" /\ ret[t].op = "set_duty_cycle" /\ loc[t].arg # NaN)
              => /\ ret[t].res \in {"Ok", "InvalidArgument"}
                 /\ Len(calls[t]) = 1
                 /\ calls[t][1].f = "SetDuty"
                 /\ calls[t][1].pin = loc[t].pre.number
                 /\ calls[t][1].arg * DutyDen = loc[t].pre.period * Expected(loc[t].arg)
                 /\ pwm[t].duty_cycle =
                        IF calls[t][1].ok THEN Expected(loc[t].arg) ELSE loc[t].pre.duty_cycle
                 /\ pwm[t].period = loc[t].pre.period
                 /\ pwm[t].polarity = loc[t].pre.polarity

\* C8 witness: set_duty_cycle(x) with x > 1 succeeded on a handle whose
\* duty cycle was below 1 and whose period is not zero; the cache holds 1.
C8_Witness ==
    \E t \in Threads :
        /\ pc[t] = "done" /\ ret[t].op = "set_duty_cycle" /\ ret[t].res = "Ok"
        /\ loc[t].arg > DutyDen
        /\ loc[t].pre.duty_cycle < DutyDen
        /\ loc[t].pre.period > 0
        /\ pwm[t].duty_cycle = DutyDen

\* thread t calls an accessor of its PwmPin in this step
AccessorStep(t) == pc[t] = "idle" /\ pc'[t] = "done" /\ ret'[t].op \in Accessors

\* C9: duty_cycle_as_dur() returns period() x duty_cycle(), whatever calls
\* of set_period and set_duty_cycle came before; an accessor issues no
\* hardware call and changes neither the handle, the hardware nor the registry.
C9_DutyAsDuration ==
    [][\A t \in Threads :
          AccessorStep(t)
              => /\ (ret'[t].op = "period" => ret'[t].val = pwm[t].period)
                 /\ (ret'[t].op = "duty_cycle" => ret'[t].val = pwm[t].duty_cycle)
                 /\ (ret'[t].op = "duty_cycle_as_dur"
                        => ret'[t].val * DutyDen = period(pwm[t]) * duty_cycle(pwm[t]))
                 /\ calls'[t] = <<>>
                 /\ hw' = hw
                 /\ pwm' = pwm
                 /\ handles' = handles]_vars

\* C9 witness: duty_cycle_as_dur() was called after a set_period that failed
\* at its second call left another duty duration in the hardware, and it
\* returned a nonzero period x duty cycle.
C9_Witness ==
    \E t \in Threads :
        /\ pc[t] = "done" /\ ret[t].op = "duty_cycle_as_dur"
        /\ ret[t].val > 0
        /\ ret[t].val * DutyDen = pwm[t].period * pwm[t].duty_cycle
        /\ hw[pwm[t].number].duty # ret[t].val

\* C10: after toggle() on an Output handle, read() returns the opposite of
\* what it returned before the toggle (High when the pin read Low), and
\* after two toggles in a row it returns what it returned before the first.
C10_ToggleFlips ==
    \A t \in Threads :
        (gpio[t].live /\ gret[t].op = "toggle")
            => /\ gpio[t].mode = "Output"
               /\ Len(gret[t].was) >= 1
               /\ (gret[t].was[Len(gret[t].was)] = "Low" => read(gpio[t]) = "High")
               /\ (gret[t].was[Len(gret[t].was)] = "High" => read(gpio[t]) = "Low")
               /\ (Len(gret[t].was) = 2 => read(gpio[t]) = gret[t].was[1])

\* C10 witness: an Output handle whose pin read Low was toggled twice and
\* reads Low again.
C10_Witness ==
    \E t \in Threads :
        /\ gpio[t].live /\ gpio[t].mode = "Output"
        /\ gret[t].op = "toggle"
        /\ gret[t].was = <<"Low", "High">>
        /\ read(gpio[t]) = "Low"

\* thread t's wait_for_interrupt returns
WaitStep(t) ==
    /\ gret'[t].op = "wait_for_interrupt"
    /\ <<gret'[t], irq'[t]>> # <<gret[t], irq[t]>>

\* C12: wait_for_interrupt returns Ok exactly when the hardware status is
\* positive and InterruptTimeOut for every zero or negative status; it takes
\* no lock and changes neither a registry nor a handle.
C12_WaitMapsStatus ==
    [][\A t \in Threads :
          WaitStep(t) =>
              /\ gret'[t].res = "Ok" <=> irq'[t].status > 0
              /\ gret'[t].res = "InterruptTimeOut" <=> irq'[t].status <= 0
              /\ lock' = lock
              /\ gpio_handles' = gpio_handles /\ handles' = handles
              /\ gpio' = gpio /\ pwm' = pwm]_vars

C12_Witness ==
    \E t \in Threads :
        /\ gret[t].op = "wait_for_interrupt" /\ gret[t].res = "InterruptTimeOut"
        /\ irq[t].status = 0
        /\ gpio[t].live /\ gpio[t].number \in gpio_handles

\* thread t's read() on an Input handle returns
InputReadStep(t) ==
    /\ gpio[t].live /\ gpio[t].mode = "Input"
    /\ gret'[t].op = "read" /\ gret'[t] # gret[t]

\* C13 as stated: read() on an Input handle maps any nonzero raw value to
\* High and zero to Low.
C13_NonzeroIsHigh ==
    [][\A t \in Threads :
          InputReadStep(t) =>
              gret'[t].res = IF level[gpio[t].number] # 0 THEN "High" ELSE "Low"]_vars

\* C13 amended: read() on an Input handle maps the raw value 1 to High and
\* every other raw value, zero or not, to Low.
C13_OnlyOneIsHigh ==
    [][\A t \in Threads :
          InputReadStep(t) =>
              gret'[t].res = IF level[gpio[t].number] = digital_value_t_HIGH
                             THEN "High" ELSE "Low"]_vars

C13_Witness ==
    \E t \in Threads :
        /\ gpio[t].live /\ gpio[t].mode = "Input"
        /\ gret[t].op = "read" /\ gret[t].res = "Low"
        /\ level[gpio[t].number] = digital_value_t_HIGH + 1

\* C20: the timeout handed to the hardware by wait_for_interrupt is the
\* requested count of milliseconds and is never negative.
C20_TimeoutPreserved ==
    \A t \in Threads :
        gret[t].op = "wait_for_interrupt" =>
            /\ irq[t].passed >= 0
            /\ irq[t].asked[1] = 0 /\ irq[t].passed = irq[t].asked[2]

\* C11: dropping a live PwmPin first removes its pin number from the
\* registry, with no hardware call yet, and then issues exactly one disable
\* call (enable = 0) for that pin; whatever that call answers, the drop
\* returns and the pin stays released by it.
C11_DropRemovesThenDisables ==
    [][\A t \in Threads :
          /\ PwmDropStep(t) =>
                /\ pwm[t].number \notin handles' /\ ~pwm'[t].live
                /\ calls'[t] = <<>> /\ hw' = hw
          /\ (pc[t] = "drop_disable" /\ pc'[t] # pc[t]) =>
                /\ pc'[t] = "done" /\ ret'[t] = [op |-> "drop", res |-> "unit", val |-> 0]
                /\ Len(calls'[t]) = 1
                /\ calls'[t][1].f = "Enable" /\ calls'[t][1].pin = loc[t].number
                /\ calls'[t][1].arg = 0
                /\ handles' = handles /\ ~pwm'[t].live]_vars

C11_Witness ==
    \E t \in Threads :
        /\ pc[t] = "done" /\ ret[t].op = "drop"
        /\ calls[t] = <<Call("Enable", loc[t].number, 0, FALSE)>>
        /\ hw[loc[t].number].enabled = 1
        /\ loc[t].number \notin handles

\* thread t is inside PwmPin::new or has just returned from it
InNew(t) ==
    \/ pc[t] \in {"new_period", "new_fallback", "new_retry", "new_duty",
                   "new_polarity", "new_enable", "new_insert"}
    \/ pc[t] = "done" /\ ret[t].op = "new"

\* the number of calls of the set-period step: one, or three with the fallback
PeriodCalls(cs) == IF Len(cs) >= 1 /\ cs[1].ok THEN 1 ELSE 3

\* the call the constructor with the locals l makes at position i of the log cs
NewCallAt(cs, l, i) ==
    LET k == PeriodCalls(cs)
    IN  IF i = 1 \/ (i = 3 /\ k = 3) THEN <<"SetPeriod", l.period * DutyDen>>
        ELSE IF i = 2 /\ k = 3 THEN <<"SetDuty", 0>>
        ELSE IF i = k + 1 THEN <<"SetDuty", l.period * Expected(l.arg)>>
        ELSE IF i = k + 2 THEN <<"SetPolarity", DutyDen * (IF l.polarity = "Normal" THEN 0 ELSE 1)>>
        ELSE <<"Enable", DutyDen>>

\* C14: PwmPin::new issues its hardware calls in the order set-period (with
\* the duty-zero / period-retry fallback), set-duty with period x clamped
\* duty, set-polarity, enable(1); no call follows the first failing step, and
\* the handle is live with its pin in the registry only after enable succeeded.
C14_NewCallOrder ==
    \A t \in Threads :
        InNew(t) =>
            LET cs == calls[t]
                k == PeriodCalls(cs)
                n == Len(cs)
            IN  /\ n <= k + 3
                /\ \A i \in 1..n :
                      /\ cs[i].pin = loc[t].number
                      /\ <<cs[i].f, cs[i].arg * DutyDen>> = NewCallAt(cs, loc[t], i)
                      /\ i < n => (cs[i].ok \/ i = 1)
                /\ pc[t] = "new_insert" => n = k + 3 /\ cs[n].ok
                /\ pc[t] # "done" => ~pwm[t].live /\ loc[t].number \notin handles
                /\ pc[t] = "done" =>
                      IF ret[t].res = "Ok"
                      THEN /\ n = k + 3 /\ cs[n].ok /\ cs[n].f = "Enable" /\ cs[n].arg = 1
                           /\ pwm[t].live /\ pwm[t].number = loc[t].number
                           /\ loc[t].number \in handles
                      ELSE ~pwm[t].live

C14_Witness ==
    \E t \in Threads :
        /\ pc[t] = "done" /\ ret[t].op = "new" /\ ret[t].res = "Ok"
        /\ Len(calls[t]) = 6 /\ ~calls[t][1].ok
        /\ loc[t].arg > DutyDen /\ loc[t].period > 0
        /\ pwm[t].live

\* what PwmPin::new does once its first set-period call has failed, with
\* retry_error the error of a failed retry
FallbackOutcome(t, retry_error) ==
    LET cs == calls[t]
        n == Len(cs)
    IN  (InNew(t) /\ n >= 1 /\ ~cs[1].ok) =>
            /\ n = 1 <=> pc[t] = "new_fallback"
            /\ n >= 2 => cs[2] = Call("SetDuty", loc[t].number, 0, cs[2].ok)
            /\ (n >= 2 /\ ~cs[2].ok) =>
                  n = 2 /\ pc[t] = "done" /\ ret[t].res = "Unsupported"
            /\ (n = 2 /\ cs[2].ok) => pc[t] = "new_retry"
            /\ n >= 3 => cs[3] = Call("SetPeriod", loc[t].number, loc[t].period, cs[3].ok)
            /\ (n >= 3 /\ ~cs[3].ok) =>
                  n = 3 /\ pc[t] = "done" /\ ret[t].res = retry_error
            /\ (n = 3 /\ cs[3].ok) =>
                  pc[t] = "new_duty" \/ (pc[t] = "done" /\ ret[t].res = "panic")
            /\ n >= 4 => cs[3].ok /\ cs[4].f = "SetDuty"

\* C15 as stated: when the first set-period call of new fails, duty 0 is
\* programmed and set-period retried; a failed duty-zero call and a failed
\* retry both return Unsupported; a successful retry goes on to the duty step.
C15_RetryFailureIsUnsupported == \A t \in Threads : FallbackOutcome(t, "Unsupported")

\* C15 amended: as above, but a failed retry returns InvalidArgument; only
\* the failed duty-zero call returns Unsupported.
C15_RetryFailureIsInvalidArgument == \A t \in Threads : FallbackOutcome(t, "InvalidArgument")

C15_Witness ==
    \E t \in Threads :
        /\ pc[t] = "done" /\ ret[t].op = "new" /\ ret[t].res = "InvalidArgument"
        /\ Len(calls[t]) = 3 /\ ~calls[t][1].ok /\ calls[t][2].ok /\ ~calls[t][3].ok

\* thread t is inside set_period or has just returned from it
InSetPeriod(t) == pc[t] = "sp_period" \/ (pc[t] = "done" /\ ret[t].op = "set_period")

\* C16: set_period first issues set-duty with new period x cached duty
\* cycle, then set-period with the new period; after a failed set-duty no
\* set-period is issued; the cached period is the new one only after both
\* calls succeeded, and nothing else in the handle changes.
C16_SetPeriodOrder ==
    \A t \in Threads :
        InSetPeriod(t) =>
            LET cs == calls[t]
                n == Len(cs)
                pre == loc[t].pre
            IN  /\ n \in {1, 2}
                /\ cs[1].f = "SetDuty" /\ cs[1].pin = pre.number
                /\ cs[1].arg * DutyDen = loc[t].period * pre.duty_cycle
                /\ pc[t] = "sp_period" => n = 1 /\ cs[1].ok
                /\ ~cs[1].ok => n = 1
                /\ n = 2 => /\ pc[t] = "done"
                            /\ cs[2].f = "SetPeriod" /\ cs[2].pin = pre.number
                            /\ cs[2].arg = loc[t].period
                /\ pwm[t] = [pre EXCEPT !.period = IF n = 2 /\ cs[2].ok
                                                    THEN loc[t].period ELSE @]
                /\ ret[t].res = "Ok" <=> (pc[t] = "done" /\ n = 2 /\ cs[2].ok)

C16_Witness ==
    \E t \in Threads :
        /\ pc[t] = "done" /\ ret[t].op = "set_period" /\ ret[t].res = "Ok"
        /\ loc[t].pre.duty_cycle = 1 /\ loc[t].pre.period > loc[t].period
        /\ loc[t].period > 0
        /\ pwm[t].period = loc[t].period

\* thread t takes a step of set_period: its first or its second hardware call
SetPeriodStep(t) ==
    \/ CanCall(t) /\ pc'[t] = "sp_period"
    \/ CanCall(t) /\ pc'[t] = "done" /\ ret'[t].op = "set_period"
    \/ pc[t] = "sp_period" /\ pc'[t] = "done"

\* the duty programmed for pin p is within the period programmed for it
DutyWithinPeriod(h, p) == h[p].duty <= h[p].period

\* C17: if the hardware duty does not exceed the hardware period before a
\* set_period call, it does not exceed the programmed period after any step
\* of the call, for a shorter and for a longer new period.
C17_DutyNeverExceedsPeriod ==
    [][\A t \in Threads :
          (SetPeriodStep(t) /\ DutyWithinPeriod(hw, pwm[t].number)) =>
              DutyWithinPeriod(hw', pwm[t].number)]_vars

\* C19: the cached period of every live PwmPin is strictly greater than zero.
C19_PeriodPositive == \A t \in Threads : pwm[t].live => pwm[t].period > 0

\* thread t issues a hardware call in this step
HwCallStep(t) == Len(calls'[t]) > Len(calls[t])

\* the registry differs by at most the one pin number p
OneRegistryOp(p) == handles' \in {handles, handles \cup {p}, handles \ {p}}

\* C18: the thread holding the registry lock holds it for one contains,
\* insert or remove and drops it with that step; no thread issues a hardware
\* call while it holds the lock, so the lock of the membership check of new
\* and the lock of drop are released before the hardware calls after them.
C18_NoLockAcrossHardware ==
    [][\A t \in Threads :
          /\ HwCallStep(t) => lock # t /\ lock' # t
          /\ (lock = t /\ pc'[t] # pc[t]) =>
                /\ lock' = "free"
                /\ hw' = hw /\ calls' = calls
                /\ OneRegistryOp(loc[t].number)
          /\ (pc[t] = "new_locked" /\ pc'[t] = "new_period") => lock' # t
          /\ (pc[t] = "drop_locked" /\ pc'[t] = "drop_disable") => lock' # t
          /\ lock = t <=> pc[t] \in {"new_locked", "insert_locked", "drop_locked"}]_vars

C18_Witness ==
    \E t, u \in Threads :
        /\ t # u
        /\ lock = u /\ pc[u] = "drop_locked"
        /\ pc[t] = "new_duty" /\ Len(calls[t]) = 1
====
